---- MODULE Spec2Model ----
(***************************************************************************)
(* Notion MCP server (src/main.py): credential resolution through the      *)
(* Nango broker, the NotionClient request primitive with its retry loop,   *)
(* the per-operation payload builders and the MCP tool dispatcher          *)
(* handle_call_tool running on the asyncio event loop.                     *)
(***************************************************************************)
EXTENDS Integers, Sequences, FiniteSets, TLC

VARIABLES
    env,            \* os.environ: the four NANGO_* variables
    notion_client,  \* the module global: None or the constructed client
    ctor,           \* the latest direct NotionClient(...) construction
    calls,          \* per caller: idle / pending (call sent) / running
    loop,           \* the task the event-loop thread is executing, or None
    frame,          \* the handler execution on the thread (current or latest)
    payload         \* the latest payload built by a page_size operation

vars == <<env, notion_client, ctor, calls, loop, frame, payload>>

\* Python's None, and a key that is absent from a mapping
None == "None"
Absent == "absent"

\* Python truthiness of an optional string
Truthy(x) == x \notin {None, ""}

\* Python's `a or b`
PyOr(a, b) == IF Truthy(a) THEN a ELSE b

(***************************************************************************)
(* Bounds                                                                  *)
(***************************************************************************)
\* cap on the HTTP attempts of one request (the 429 branch has no cap)
MaxAttempts == 4
\* largest page_size a caller passes
MaxPageSize == 103

(***************************************************************************)
(* Credential resolution                                                   *)
(***************************************************************************)
EnvIds == {None, "", "env_id"}
Envs == [NANGO_BASE_URL : {None, "http://nango"},
         NANGO_SECRET_KEY : {None, "secret"},
         NANGO_CONNECTION_ID : EnvIds,
         NANGO_INTEGRATION_ID : EnvIds]

\* What the broker can answer to GET {base}/connection/{id}: a connection
\* failure, a non-2xx status, a body that is not JSON, or a JSON mapping whose
\* "credentials" entry is absent / not a mapping / a mapping without
\* access_token / one with a null access_token / one with a token, and whose
\* top-level "access_token" is absent / null / a token.
BrokerResponses ==
    [kind : {"neterr", "http_error", "bad_json"},
     credentials : {Absent}, access_token : {Absent}]
    \cup
    [kind : {"json"},
     credentials : {Absent, "nondict", "no_token", "null_token", "tokC"},
     access_token : {Absent, None, "tokT"}]

Return(v, n) == [kind |-> "return", value |-> v, exc |-> None, net |-> n]
Raise(e, n) == [kind |-> "raise", value |-> None, exc |-> e, net |-> n]

\* get_connection_credentials: net counts the HTTP calls made to the broker
get_connection_credentials(e, resp) ==
    IF ~Truthy(e.NANGO_BASE_URL) \/ ~Truthy(e.NANGO_SECRET_KEY)
    THEN Raise("NotionAuthError", 0)
    ELSE CASE resp.kind = "neterr" -> Raise("ConnectionError", 1)
           [] resp.kind = "http_error" -> Raise("HTTPError", 1)
           [] resp.kind = "bad_json" -> Raise("JSONDecodeError", 1)
           [] OTHER -> Return(resp, 1)

\* dict.get('access_token') on the "credentials" entry
CredentialsGet(c) == IF c = "tokC" THEN "tokC" ELSE None

\* NotionClient._get_nango_token: every exception of the try block, the
\* NotionAuthError of the else branch included, is re-raised as NotionAuthError
get_nango_token(e, resp) ==
    LET r == get_connection_credentials(e, resp) IN
    IF r.kind = "raise" THEN Raise("NotionAuthError", r.net)
    ELSE IF r.value.credentials # Absent
         THEN IF r.value.credentials = "nondict"
              THEN Raise("NotionAuthError", r.net)   \* AttributeError, wrapped
              ELSE Return(CredentialsGet(r.value.credentials), r.net)
         ELSE IF r.value.access_token # Absent
              THEN Return(r.value.access_token, r.net)
              ELSE Raise("NotionAuthError", r.net)

\* The module global before initialize_client, and a constructed client: the
\* bearer token of its Authorization header
NoClient == [init |-> FALSE, auth_token |-> None]
Client(token) == [init |-> TRUE, auth_token |-> token]

\* A bug: one broker identifier is enough to ask the broker
AuthBranch_mut(auth_token, cid, pck) ==
    IF Truthy(auth_token) THEN "static"
    ELSE IF Truthy(cid) \/ Truthy(pck) THEN "nango"
    ELSE "raise"

\* The branch NotionClient.__init__ takes
AuthBranch(auth_token, cid, pck) ==
    IF Truthy(auth_token) THEN "static"
    ELSE IF Truthy(cid) /\ Truthy(pck) THEN "nango"
    ELSE "raise"

\* NotionClient.__init__: the constructed client (its bearer token) or the
\* exception, with the number of broker HTTP calls made
NotionClient(auth_token, cid_arg, pck_arg, e, resp) ==
    LET cid == PyOr(cid_arg, e.NANGO_CONNECTION_ID)
        pck == PyOr(pck_arg, e.NANGO_INTEGRATION_ID)
        branch == AuthBranch(auth_token, cid, pck)
    IN CASE branch = "static" -> Return(Client(auth_token), 0)
         [] branch = "nango" ->
              LET t == get_nango_token(e, resp) IN
              IF t.kind = "raise" THEN t
              ELSE Return(Client(t.value), t.net)
         [] OTHER -> Raise("NotionAuthError", 0)

NoCtor == [called |-> FALSE, auth_token |-> None, cid |-> None, pck |-> None,
           resp |-> [kind |-> "neterr", credentials |-> Absent,
                     access_token |-> Absent],
           result |-> Raise(None, 0)]

TokenArgs == {None, "", "tokS"}
IdArgs == {None, "arg_id"}

\* A direct construction NotionClient(auth_token, nango_connection_id,
\* nango_provider_config_key), the broker answering resp if it is asked
Construct(auth_token, cid, pck, resp) ==
    /\ ctor' = [called |-> TRUE, auth_token |-> auth_token, cid |-> cid,
                pck |-> pck, resp |-> resp,
                result |-> NotionClient(auth_token, cid, pck, env, resp)]
    /\ UNCHANGED <<env, notion_client, calls, loop, frame, payload>>

\* initialize_client: constructs the global client from the environment; on
\* an exception the global keeps its value and the exception is re-raised
initialize_client(resp) ==
    /\ ~notion_client.init
    /\ LET r == NotionClient(None, env.NANGO_CONNECTION_ID,
                             env.NANGO_INTEGRATION_ID, env, resp)
       IN /\ r.kind = "return"
          /\ notion_client' = r.value
    /\ UNCHANGED <<env, ctor, calls, loop, frame, payload>>

(***************************************************************************)
(* Per-operation payloads                                                  *)
(***************************************************************************)
Ret(v) == [kind |-> "return", value |-> v, exc |-> None]
Exc(type, msg) == [kind |-> "raise", value |-> None,
                   exc |-> [type |-> type, msg |-> msg]]

\* A page_size argument: absent (or null), an integer, or a string
PageSize(t, v) == [t |-> t, v |-> v]
NoPageSize == PageSize("absent", 0)

\* A bug: the page_size is passed on as given
ClampPageSize_mut(n) == n

\* Python's min(page_size, 100)
ClampPageSize(n) == IF n < 100 THEN n ELSE 100

\* `if page_size: data["page_size"] = min(page_size, 100)`: the page_size entry
\* of the payload, left out for None and 0; min() of a string and an int raises
PageSizeEntry(ps) ==
    CASE ps.t = "absent" -> Ret([has |-> FALSE, v |-> 0])
      [] ps.t = "int" -> IF ps.v = 0 THEN Ret([has |-> FALSE, v |-> 0])
                         ELSE Ret([has |-> TRUE, v |-> ClampPageSize(ps.v)])
      [] OTHER -> Exc("TypeError", <<"'<' not supported between instances">>)

\* The client methods that take page_size
PageSizeOps == {"search", "query_database", "get_block_children"}

\* The page_size entry each client method puts in its body (search,
\* query_database) or its query parameters (get_block_children); the other
\* methods send none
OpPayload(op, ps) ==
    IF op \in PageSizeOps THEN PageSizeEntry(ps)
    ELSE Ret([has |-> FALSE, v |-> 0])

(***************************************************************************)
(* The request primitive NotionClient._make_request                        *)
(***************************************************************************)
max_retries == 3

\* What one requests.get/post/patch call can produce: a network-level
\* exception, or a response with a status, a Retry-After header and a body
Contents == {"", "{}", "{\"object\":\"page\"}", "[]", "<html>"}
HttpOutcomes ==
    [kind : {"exception"}, exc : {"ConnectionError", "Timeout"},
     status : {0}, retry_after : {Absent}, content : {""}]
    \cup
    [kind : {"response"}, exc : {None},
     status : {200}, retry_after : {Absent}, content : Contents]
    \cup
    [kind : {"response"}, exc : {None},
     status : {429}, retry_after : {Absent, "2", "Wed, 21 Oct 2026"},
     content : {""}]
    \cup
    [kind : {"response"}, exc : {None},
     status : {404, 500}, retry_after : {Absent}, content : {""}]

\* str() of the exception requests raises for an outcome
ExcMessage(o) ==
    CASE o.kind = "exception" -> o.exc
      [] o.status = 404 -> "404 Client Error"
      [] o.status = 500 -> "500 Server Error"
      [] OTHER -> "Expecting value"

\* int(response.headers.get('Retry-After', 1))
RetryAfter(h) ==
    CASE h = Absent -> Ret(1)
      [] h = "2" -> Ret(2)
      [] OTHER -> Exc("ValueError", <<"invalid literal for int()">>)

\* response.raise_for_status(): HTTPError for 4xx and 5xx
RaisesForStatus(status) == status >= 400 /\ status < 600

\* response.json() if response.content else {}
ParseBody(content) ==
    CASE content = "" -> Ret([type |-> "dict", repr |-> "{}"])
      [] content = "{}" -> Ret([type |-> "dict", repr |-> "{}"])
      [] content = "{\"object\":\"page\"}" ->
             Ret([type |-> "dict", repr |-> "{'object': 'page'}"])
      [] content = "[]" -> Ret([type |-> "list", repr |-> "[]"])
      [] OTHER -> Exc("JSONDecodeError", <<"Expecting value">>)

\* json.dumps(result, indent=2)
JsonDumps(v) ==
    CASE v.repr = "{}" -> "{}"
      [] v.repr = "None" -> "null"
      [] v.repr = "[]" -> "[]"
      [] OTHER -> "{\n  \"object\": \"page\"\n}"

\* What one pass through the try block does with an outcome:
\*   "caught"  a requests.exceptions.RequestException reaches the except clause
\*   "sleep429" the 429 branch sleeps and continues
\*   "return"  the body is returned
\*   "escape"  another exception leaves _make_request
\* jsonIsReqExc: whether the installed requests raises a JSONDecodeError that
\* is a RequestException (2.27 and later) or a plain ValueError
TryBlock(o, jsonIsReqExc) ==
    CASE o.kind = "exception" ->
             [step |-> "caught", msg |-> ExcMessage(o), r |-> Ret(0)]
      [] o.status = 429 ->
             LET ra == RetryAfter(o.retry_after) IN
             IF ra.kind = "raise"
             THEN [step |-> "escape", msg |-> "", r |-> ra]
             ELSE [step |-> "sleep429", msg |-> "", r |-> ra]
      [] RaisesForStatus(o.status) ->
             [step |-> "caught", msg |-> ExcMessage(o), r |-> Ret(0)]
      [] OTHER ->
             LET b == ParseBody(o.content) IN
             IF b.kind = "return"
             THEN [step |-> "return", msg |-> "", r |-> b]
             ELSE IF jsonIsReqExc
                  THEN [step |-> "caught", msg |-> ExcMessage(o), r |-> Ret(0)]
                  ELSE [step |-> "escape", msg |-> "", r |-> b]

\* A bug: the budget is compared off by one
Exhausted_mut(retry_count) == retry_count = max_retries

\* `if retry_count == max_retries - 1: raise NotionAPIError(...)`
Exhausted(retry_count) == retry_count = max_retries - 1

\* `while retry_count < max_retries`
LoopCondition(retry_count) == retry_count < max_retries

\* What a function returns when its body ends without a return statement
PyNone == [type |-> "NoneType", repr |-> "None"]

\* retry_count after the 429 branch's `continue`
RetryCountAfter429(retry_count) == retry_count

\* time.sleep(1) of the except clause
BackoffSeconds == 1

NotionAPIError(msg) ==
    Exc("NotionAPIError",
        <<"API request failed after ", ToString(max_retries), " retries: ", msg>>)

(***************************************************************************)
(* Tool dispatch: handle_call_tool                                         *)
(***************************************************************************)
RegisteredTools ==
    {"notion_search", "notion_get_database", "notion_query_database",
     "notion_create_database", "notion_get_page", "notion_create_page",
     "notion_update_page", "notion_get_block_children", "notion_append_blocks",
     "notion_get_current_user"}

\* The names a caller passes: the registered ones and one that is not
ToolNames == RegisteredTools \cup {"notion_delete_page"}

\* The "required" list of each tool's inputSchema in handle_list_tools
SchemaRequired(name) ==
    CASE name = "notion_get_database" -> {"database_id"}
      [] name = "notion_query_database" -> {"database_id"}
      [] name = "notion_create_database" ->
             {"parent_page_id", "title", "properties"}
      [] name = "notion_get_page" -> {"page_id"}
      [] name = "notion_create_page" ->
             {"parent_type", "parent_id", "properties"}
      [] name = "notion_update_page" -> {"page_id", "properties"}
      [] name = "notion_get_block_children" -> {"block_id"}
      [] name = "notion_append_blocks" -> {"block_id", "children"}
      [] OTHER -> {}

\* The arguments a branch reads with arguments["key"], in the order it reads
\* them; arguments.get(...) reads are not listed, they never raise
RequiredArgs(name) ==
    CASE name = "notion_get_database" -> <<"database_id">>
      [] name = "notion_query_database" -> <<"database_id">>
      [] name = "notion_create_database" ->
             <<"parent_page_id", "title", "properties">>
      [] name = "notion_get_page" -> <<"page_id">>
      [] name = "notion_create_page" ->
             <<"parent_type", "parent_id", "properties">>
      [] name = "notion_update_page" -> <<"page_id", "properties">>
      [] name = "notion_get_block_children" -> <<"block_id">>
      [] name = "notion_append_blocks" -> <<"block_id", "children">>
      [] OTHER -> <<>>

\* The if/elif chain on name: the client method a branch calls and its HTTP
\* method; "none" for the final else branch
Branch(name) ==
    CASE name = "notion_search" -> [op |-> "search", method |-> "POST"]
      [] name = "notion_get_database" -> [op |-> "get_database", method |-> "GET"]
      [] name = "notion_query_database" ->
             [op |-> "query_database", method |-> "POST"]
      [] name = "notion_create_database" ->
             [op |-> "create_database", method |-> "POST"]
      [] name = "notion_get_page" -> [op |-> "get_page", method |-> "GET"]
      [] name = "notion_create_page" -> [op |-> "create_page", method |-> "POST"]
      [] name = "notion_update_page" -> [op |-> "update_page", method |-> "PATCH"]
      [] name = "notion_get_block_children" ->
             [op |-> "get_block_children", method |-> "GET"]
      [] name = "notion_append_blocks" ->
             [op |-> "append_block_children", method |-> "PATCH"]
      [] name = "notion_get_current_user" ->
             [op |-> "get_current_user", method |-> "GET"]
      [] OTHER -> [op |-> "none", method |-> "none"]

\* A bug: the final else branch falls through to a client call
ToolOp_mut(name) ==
    IF name \in RegisteredTools THEN Branch(name)
    ELSE Branch("notion_get_current_user")

\* The branch handle_call_tool takes for name
ToolOp(name) == Branch(name)

\* The tools whose inputSchema has a page_size property
PageSizeTools ==
    {"notion_search", "notion_query_database", "notion_get_block_children"}

Range(q) == {q[i] : i \in 1..Len(q)}

\* The argument mappings a caller passes: which of the schema's required keys
\* are present (all of them, or all but one), and the page_size value
PageSizeArgs == {NoPageSize, PageSize("int", 7),
                 PageSize("int", MaxPageSize), PageSize("str", 0)}
ArgsFor(name) ==
    [keys : {SchemaRequired(name)} \cup
            {SchemaRequired(name) \ {k} : k \in SchemaRequired(name)},
     page_size : IF name \in PageSizeTools THEN PageSizeArgs ELSE {NoPageSize}]

\* A bug: only the first argument is read with arguments["key"], the others
\* with arguments.get
FirstMissing_mut(name, args) ==
    LET req == RequiredArgs(name)
    IN IF Len(req) > 0 /\ req[1] \notin args.keys THEN 1 ELSE 0

\* The first arguments["key"] read that raises KeyError, 0 when none does
FirstMissing(name, args) ==
    LET req == RequiredArgs(name)
        miss == {i \in 1..Len(req) : req[i] \notin args.keys}
    IN IF miss = {} THEN 0
       ELSE CHOOSE i \in miss : \A j \in miss : i <= j

TextContent(text) == [type |-> "text", text |-> text]

\* A bug: the except clause catches NotionAPIError only
HandleException_mut(name, e) ==
    IF e.type = "NotionAPIError"
    THEN Ret(<<TextContent(<<"Error executing ", name, ": ">> \o e.msg)>>)
    ELSE Exc(e.type, e.msg)

\* The except clause of handle_call_tool: `except Exception as e`
HandleException(name, e) ==
    Ret(<<TextContent(<<"Error executing ", name, ": ">> \o e.msg)>>)

\* handle_call_tool up to the call of the client method: the result it returns
\* without calling the client, or "call" with the payload the method builds
Dispatch(name, args) ==
    IF ToolOp(name).op = "none"
    THEN [step |-> "done",
          result |-> Ret(<<TextContent(<<"Unknown tool: ", name>>)>>),
          client |-> FALSE, sent |-> [has |-> FALSE, v |-> 0]]
    ELSE IF FirstMissing(name, args) # 0
    THEN [step |-> "done",
          result |-> HandleException(name,
              [type |-> "KeyError",
               msg |-> <<"'", RequiredArgs(name)[FirstMissing(name, args)], "'">>]),
          client |-> FALSE, sent |-> [has |-> FALSE, v |-> 0]]
    ELSE LET pl == OpPayload(ToolOp(name).op, args.page_size) IN
         IF pl.kind = "raise"
         THEN [step |-> "done", result |-> HandleException(name, pl.exc),
               client |-> TRUE, sent |-> [has |-> FALSE, v |-> 0]]
         ELSE [step |-> "call", result |-> Ret(<<>>),
               client |-> TRUE, sent |-> pl.value]

Calls == {"A", "B"}

NoOutcome == [kind |-> "none", exc |-> None, status |-> 0,
              retry_after |-> Absent, content |-> ""]

NoFrame ==
    [call |-> None, name |-> "", args |-> [keys |-> {}, page_size |-> NoPageSize],
     pc |-> "none", saw_client |-> FALSE, client |-> FALSE, method |-> "none",
     sent |-> [has |-> FALSE, v |-> 0],
     retry_count |-> 0, attempts |-> 0, failures |-> 0, net_failures |-> 0,
     sleeps |-> 0, backoff |-> 0, last_sleep |-> 0, last_step |-> "none",
     last_o |-> NoOutcome, req |-> Ret(0), result |-> Ret(<<>>)]

\* The frame's fields besides the locals of the code are bookkeeping about
\* the call: saw_client is what `if not notion_client` found, client whether a
\* client method was called, attempts counts the HTTP calls made, failures the
\* exceptions the except clause caught, net_failures the network-level ones
\* among them, sleeps the time.sleep calls, backoff the seconds slept in the
\* except clause, last_sleep the seconds of the latest sleep, last_o the
\* latest HTTP outcome and last_step what the try block did with it

\* The MCP runtime receives a tools/call request: the call waits for the
\* event loop
Submit(c) ==
    /\ calls[c] = "idle"
    /\ calls' = [calls EXCEPT ![c] = "pending"]
    /\ UNCHANGED <<env, notion_client, ctor, loop, frame, payload>>

\* The event loop runs handle_call_tool(name, arguments) for a pending call.
\* The coroutine has no await: it keeps the thread until it returns, and the
\* runtime sends the returned result back, after which the caller may call
\* again.
Start(c, name, args) ==
    /\ calls[c] = "pending"
    /\ loop = None
    /\ LET f0 == [NoFrame EXCEPT !.call = c, !.name = name, !.args = args,
                                 !.saw_client = notion_client.init] IN
       IF ~notion_client.init
       THEN /\ frame' = [f0 EXCEPT !.pc = "returned",
                   !.result = Ret(<<TextContent(
                       <<"Error: Notion client not initialized">>)>>)]
            /\ calls' = [calls EXCEPT ![c] = "idle"]
            /\ loop' = None
       ELSE LET d == Dispatch(name, args) IN
            IF d.step = "done"
            THEN /\ frame' = [f0 EXCEPT !.pc = "returned", !.result = d.result,
                                        !.client = d.client]
                 /\ calls' = [calls EXCEPT ![c] = "idle"]
                 /\ loop' = None
            ELSE /\ frame' = [f0 EXCEPT !.pc = "request", !.client = TRUE,
                                        !.method = ToolOp(name).method,
                                        !.sent = d.sent]
                 /\ calls' = [calls EXCEPT ![c] = "running"]
                 /\ loop' = c
    /\ UNCHANGED <<env, notion_client, ctor, payload>>

\* _make_request raises e inside handle_call_tool's try block
HandlerCatches(f, e) ==
    [f EXCEPT !.pc = "returned", !.req = [kind |-> "raise", value |-> None, exc |-> e],
              !.result = HandleException(f.name, e)]

\* One iteration of the while loop of _make_request: the HTTP call is made and
\* answered by o
Attempt(o, jsonIsReqExc) ==
    /\ frame.pc = "request"
    /\ frame.attempts < MaxAttempts
    /\ LET t == TryBlock(o, jsonIsReqExc)
           f1 == [frame EXCEPT !.attempts = @ + 1, !.last_step = t.step,
                               !.last_o = o]
           net == IF o.kind = "exception" THEN 1 ELSE 0
           slp(f, n) == [f EXCEPT !.sleeps = @ + 1, !.last_sleep = n]
           finish(f) == /\ frame' = f
                        /\ calls' = [calls EXCEPT ![frame.call] = "idle"]
                        /\ loop' = None
           sleep(f) == /\ frame' = [f EXCEPT !.pc = "sleeping"]
                       /\ UNCHANGED <<calls, loop>>
       IN CASE t.step = "return" ->
                 finish([f1 EXCEPT !.pc = "returned", !.req = t.r,
                            !.result = Ret(<<TextContent(<<JsonDumps(t.r.value)>>)>>)])
            [] t.step = "escape" -> finish(HandlerCatches(f1, t.r.exc))
            [] t.step = "sleep429" ->
                 sleep(slp([f1 EXCEPT !.retry_count = RetryCountAfter429(@)],
                           t.r.value))
            [] OTHER ->
                 IF Exhausted(frame.retry_count)
                 THEN finish(HandlerCatches(
                          [f1 EXCEPT !.failures = @ + 1,
                                     !.net_failures = @ + net],
                          NotionAPIError(t.msg).exc))
                 ELSE sleep(slp([f1 EXCEPT !.failures = @ + 1,
                                    !.net_failures = @ + net,
                                    !.retry_count = @ + 1,
                                    !.backoff = @ + BackoffSeconds],
                                BackoffSeconds))
    /\ UNCHANGED <<env, notion_client, ctor, payload>>

\* time.sleep returns: the loop of _make_request goes round again while its
\* condition holds; were it false, the function would end without a return
\* statement and the handler would serialize None
Wake ==
    /\ frame.pc = "sleeping"
    /\ IF LoopCondition(frame.retry_count)
       THEN /\ frame' = [frame EXCEPT !.pc = "request"]
            /\ UNCHANGED <<calls, loop>>
       ELSE /\ frame' = [frame EXCEPT !.pc = "returned", !.req = Ret(PyNone),
                   !.result = Ret(<<TextContent(<<JsonDumps(PyNone)>>)>>)]
            /\ calls' = [calls EXCEPT ![frame.call] = "idle"]
            /\ loop' = None
    /\ UNCHANGED <<env, notion_client, ctor, payload>>

(***************************************************************************)
(* Specifications                                                          *)
(***************************************************************************)
\* The server runs with the broker configured in its environment, and the
\* broker answers with a token or with an error status
ServerEnv ==
    [NANGO_BASE_URL |-> "http://nango", NANGO_SECRET_KEY |-> "secret",
     NANGO_CONNECTION_ID |-> "env_id", NANGO_INTEGRATION_ID |-> "env_id"]
ServerBrokerResponses ==
    {r \in BrokerResponses :
        \/ r.kind = "http_error"
        \/ r.kind = "json" /\ r.credentials = "tokC" /\ r.access_token = Absent}

NoPayload == [built |-> FALSE, op |-> "none", page_size |-> NoPageSize,
              entry |-> Ret([has |-> FALSE, v |-> 0])]

Init ==
    /\ env = ServerEnv
    /\ notion_client = NoClient
    /\ ctor = NoCtor
    /\ calls = [c \in Calls |-> "idle"]
    /\ loop = None
    /\ frame = NoFrame
    /\ payload = NoPayload

DoInitialize == \E resp \in ServerBrokerResponses : initialize_client(resp)
DoSubmit == \E c \in Calls : Submit(c)
DoStart == \E c \in Calls, name \in ToolNames : \E args \in ArgsFor(name) :
               Start(c, name, args)
DoAttempt == \E o \in HttpOutcomes, j \in BOOLEAN : Attempt(o, j)

Next == DoInitialize \/ DoSubmit \/ DoStart \/ DoAttempt \/ Wake

Spec == Init /\ [][Next]_vars

\* Credential resolution alone: any environment, any constructor arguments,
\* any broker answer
InitAuth ==
    /\ env \in Envs
    /\ notion_client = NoClient
    /\ ctor = NoCtor
    /\ calls = [c \in Calls |-> "idle"]
    /\ loop = None
    /\ frame = NoFrame
    /\ payload = NoPayload

DoConstruct == \E t \in TokenArgs, cid \in IdArgs, pck \in IdArgs :
                   \E resp \in BrokerResponses : Construct(t, cid, pck, resp)
DoInitializeAny == \E resp \in BrokerResponses : initialize_client(resp)

NextAuth == DoConstruct \/ DoInitializeAny

SpecAuth == InitAuth /\ [][NextAuth]_vars

\* The page_size handling of the client methods alone: every page_size from
\* -3 to MaxPageSize, a missing one and a string
PageSizeInputs ==
    {NoPageSize, PageSize("str", 0)} \cup
    {PageSize("int", n) : n \in (0 - 3)..MaxPageSize}

InitPayload ==
    /\ env = ServerEnv
    /\ notion_client = NoClient
    /\ ctor = NoCtor
    /\ calls = [c \in Calls |-> "idle"]
    /\ loop = None
    /\ frame = NoFrame
    /\ payload \in [built : {FALSE}, op : PageSizeOps, page_size : PageSizeInputs,
                    entry : {NoPayload.entry}]

\* search / query_database / get_block_children builds its payload
BuildPayload ==
    /\ ~payload.built
    /\ payload' = [payload EXCEPT !.built = TRUE,
                                  !.entry = OpPayload(payload.op, payload.page_size)]
    /\ UNCHANGED <<env, notion_client, ctor, calls, loop, frame>>

NextPayload == BuildPayload

SpecPayload == InitPayload /\ [][NextPayload]_vars

(***************************************************************************)
(* Properties                                                              *)
(***************************************************************************)
Returned == frame.pc = "returned"
HttpErrorStatus(o) == o.kind = "response" /\ o.status \notin {200, 429}
ErrorText(name, msg) == <<TextContent(<<"Error executing ", name, ": ">> \o msg)>>
Carries(text, word) == \E i \in 1..Len(text) : text[i] = word

\* C1: every call of the request primitive makes at most 3 HTTP attempts in
\* total, attempts answered with 429 included.
C1_AtMostThreeAttempts == frame.attempts <= 3

\* C2: an attempt that receives a status that is neither 2xx nor 429 fails
\* the call with NotionAPIError on that same attempt: the call has returned,
\* without any sleep and without a further attempt.
C2_ErrorStatusFailsImmediately ==
    (frame.last_step # "none" /\ HttpErrorStatus(frame.last_o)) =>
        /\ Returned
        /\ frame.req.kind = "raise"
        /\ frame.req.exc.type = "NotionAPIError"
        /\ frame.attempts = 1
        /\ frame.sleeps = 0

\* The value the request primitive returns for a body
JsonValue(content) ==
    CASE content \in {"", "{}"} -> [type |-> "dict", repr |-> "{}"]
      [] content = "[]" -> [type |-> "list", repr |-> "[]"]
      [] OTHER -> [type |-> "dict", repr |-> "{'object': 'page'}"]

\* C3: when every failed attempt of a call failed with a network-level
\* exception: a 200 answer with a JSON (or empty) body on attempt k, after k-1
\* failures, makes the call return that body parsed (the empty mapping for an
\* empty body), k is at most 3 and the call has slept k-1 times, 1 second each;
\* and 3 failures in a row end the call with NotionAPIError carrying the last
\* exception's message, after exactly 3 attempts and 2 sleeps.
C3_NetworkFailureRetry ==
    LET k == frame.attempts
        ok == /\ frame.last_o.kind = "response"
              /\ frame.last_o.status = 200
              /\ frame.last_o.content # "<html>"
    IN /\ (ok /\ frame.net_failures = k - 1) =>
            /\ Returned
            /\ k \in 1..3
            /\ frame.req.kind = "return"
            /\ frame.req.value = JsonValue(frame.last_o.content)
            /\ frame.sleeps = k - 1
            /\ frame.backoff = k - 1
       /\ (k >= 3 /\ frame.net_failures = k) =>
            /\ Returned
            /\ k = 3
            /\ frame.req.kind = "raise"
            /\ frame.req.exc.type = "NotionAPIError"
            /\ frame.req.exc.msg =
                   <<"API request failed after ", "3", " retries: ", frame.last_o.exc>>
            /\ frame.sleeps = 2
            /\ frame.backoff = 2

\* C3 witness: the third attempt succeeds with an empty body after two
\* network failures
C3_Witness ==
    /\ Returned
    /\ frame.attempts = 3
    /\ frame.net_failures = 2
    /\ frame.req.kind = "return"
    /\ frame.last_o.content = ""

\* Some pending call can be started by the event loop
CanStart(b) == ENABLED (\E n \in ToolNames : \E a \in ArgsFor(n) : Start(b, n, a))

\* C4: handle_call_tool never lets an exception escape: whatever the name,
\* the arguments and the client's outcome, a finished call has returned
\* exactly one text result; without an initialized client it is the "not
\* initialized" text; when argument extraction or the client raised, it is the
\* error text with the tool name and the exception's message; and the event
\* loop is free again, so every pending call can start.
C4_NoExceptionEscapes ==
    Returned =>
        /\ frame.result.kind = "return"
        /\ Len(frame.result.value) = 1
        /\ frame.result.value[1].type = "text"
        /\ ~frame.saw_client =>
               frame.result.value[1].text = <<"Error: Notion client not initialized">>
        /\ (frame.saw_client /\ frame.req.kind = "raise") =>
               /\ frame.result.value = ErrorText(frame.name, frame.req.exc.msg)
               /\ Carries(frame.result.value[1].text, frame.name)
        /\ (frame.saw_client /\ frame.name \in RegisteredTools
                /\ ~(SchemaRequired(frame.name) \subseteq frame.args.keys)) =>
               /\ Carries(frame.result.value[1].text, "Error executing ")
               /\ Carries(frame.result.value[1].text, frame.name)
        /\ (frame.saw_client /\ frame.args.page_size.t = "str"
                /\ SchemaRequired(frame.name) \subseteq frame.args.keys) =>
               /\ Carries(frame.result.value[1].text, "Error executing ")
               /\ Carries(frame.result.value[1].text, frame.name)
        /\ loop = None
        /\ \A b \in Calls : calls[b] = "pending" => CanStart(b)

\* C4 witness: the client raised an exception that is no NotionAPIError (the
\* Retry-After header is no integer) and the call returned the error text
\* while another call is waiting
C4_Witness ==
    /\ Returned
    /\ frame.req.kind = "raise"
    /\ frame.req.exc.type = "ValueError"
    /\ frame.result.kind = "return"
    /\ frame.result.value = ErrorText(frame.name, frame.req.exc.msg)
    /\ \E b \in Calls : calls[b] = "pending"

\* C5: a registered tool called with one of its required arguments missing
\* returns an error text that contains the tool name, raises nothing, and no
\* client method is called and no request is sent for that call.
C5_MissingRequiredArgument ==
    (Returned /\ frame.saw_client /\ frame.name \in RegisteredTools
        /\ ~(SchemaRequired(frame.name) \subseteq frame.args.keys)) =>
        /\ frame.result.kind = "return"
        /\ Len(frame.result.value) = 1
        /\ Carries(frame.result.value[1].text, "Error executing ")
        /\ Carries(frame.result.value[1].text, frame.name)
        /\ ~frame.client
        /\ frame.attempts = 0

\* C5 witness: notion_update_page called without "properties", the last
\* argument its branch reads
C5_Witness ==
    /\ Returned
    /\ frame.saw_client
    /\ frame.name = "notion_update_page"
    /\ frame.args.keys = {"page_id"}
    /\ frame.result.kind = "return"
    /\ frame.attempts = 0

\* C6: with an initialized client, a name that is not registered returns the
\* text "Unknown tool: {name}" and calls no client method.
C6_UnknownTool ==
    (Returned /\ frame.saw_client /\ frame.name \notin RegisteredTools) =>
        /\ frame.result.kind = "return"
        /\ frame.result.value = <<TextContent(<<"Unknown tool: ", frame.name>>)>>
        /\ ~frame.client
        /\ frame.attempts = 0

\* C6 witness: an unregistered name was dispatched with arguments
C6_Witness ==
    /\ Returned
    /\ frame.saw_client
    /\ frame.name = "notion_delete_page"
    /\ frame.result.kind = "return"

\* C7: for search, query_database and get_block_children and every integer
\* page_size, the page_size sent is never above 100: above 100 it is sent as
\* 100, in 1..100 it is sent unchanged.
C7_PageSizeClamped ==
    (payload.built /\ payload.page_size.t = "int") =>
        LET n == payload.page_size.v
            e == payload.entry
        IN /\ e.kind = "return"
           /\ e.value.has => e.value.v <= 100
           /\ n > 100 => (e.value.has /\ e.value.v = 100)
           /\ n \in 1..100 => (e.value.has /\ e.value.v = n)

\* C7 witness: get_block_children was given a page_size above 100
C7_Witness ==
    /\ payload.built
    /\ payload.op = "get_block_children"
    /\ payload.page_size.t = "int"
    /\ payload.page_size.v > 100
    /\ payload.entry.kind = "return"

\* The broker was asked and answered with a JSON mapping
BrokerAnswered ==
    /\ ctor.called
    /\ ctor.result.net = 1
    /\ ctor.resp.kind = "json"

\* C8: through the broker the token is credentials.access_token, else the
\* top-level access_token, and the construction fails with NotionAuthError
\* when the answer holds a token in neither place; no client is constructed
\* with a missing (null) bearer token.
C8_BrokerTokenResolution ==
    /\ BrokerAnswered =>
          IF ctor.resp.credentials = "tokC"
          THEN /\ ctor.result.kind = "return"
               /\ ctor.result.value.auth_token = "tokC"
          ELSE IF ctor.resp.access_token = "tokT"
          THEN /\ ctor.result.kind = "return"
               /\ ctor.result.value.auth_token = "tokT"
          ELSE /\ ctor.result.kind = "raise"
               /\ ctor.result.exc = "NotionAuthError"
    /\ (ctor.called /\ ctor.result.kind = "return") =>
          ctor.result.value.auth_token # None
    /\ notion_client.init => notion_client.auth_token # None

\* An identifier is there, given as an argument or in the environment
HasId(arg, envValue) == Truthy(arg) \/ Truthy(envValue)

\* C9: a construction with no static token and without both broker
\* identifiers (after the environment fallback) fails with NotionAuthError
\* and calls nothing on the network; with a static token the client is
\* constructed with that token and the broker is not called.
C9_NoCredentialsNoNetwork ==
    ctor.called =>
        /\ (~Truthy(ctor.auth_token)
               /\ ~(HasId(ctor.cid, env.NANGO_CONNECTION_ID)
                      /\ HasId(ctor.pck, env.NANGO_INTEGRATION_ID))) =>
              /\ ctor.result.kind = "raise"
              /\ ctor.result.exc = "NotionAuthError"
              /\ ctor.result.net = 0
        /\ Truthy(ctor.auth_token) =>
              /\ ctor.result.kind = "return"
              /\ ctor.result.value.auth_token = ctor.auth_token
              /\ ctor.result.net = 0

\* C9 witness: no static token, the connection id comes from the environment
\* of a configured broker, the provider config key is nowhere
C9_Witness ==
    /\ ctor.called
    /\ ctor.auth_token = None
    /\ ctor.cid = None
    /\ env.NANGO_CONNECTION_ID = "env_id"
    /\ ~HasId(ctor.pck, env.NANGO_INTEGRATION_ID)
    /\ Truthy(env.NANGO_BASE_URL) /\ Truthy(env.NANGO_SECRET_KEY)
    /\ ctor.result.kind = "raise"

\* C10: on the single-threaded event loop a retry sleep blocks only its own
\* call: while a call sleeps in the request primitive, every other pending
\* call can start.
C10_SleepBlocksOnlyCaller ==
    \A b \in Calls :
        (frame.pc = "sleeping" /\ b # frame.call /\ calls[b] = "pending") =>
            CanStart(b)

\* The call went through a client method into the request primitive
ThroughClient == frame.client /\ frame.attempts > 0

\* C11: retry_count stays within 0..2, so the retry loop is never left by
\* its loop condition: every finished call made through a client method
\* either returned a mapping or raised NotionAPIError, never returned without
\* a value, and the failure that exhausts the budget is followed by no sleep
\* (3 failures, 2 one-second sleeps).
C11_RetryCountAndOutcome ==
    /\ frame.retry_count \in 0..2
    /\ (Returned /\ ThroughClient) =>
          \/ frame.req.kind = "return" /\ frame.req.value.type = "dict"
          \/ frame.req.kind = "raise" /\ frame.req.exc.type = "NotionAPIError"
    /\ (Returned /\ ThroughClient /\ frame.req.kind = "raise"
           /\ frame.req.exc.type = "NotionAPIError") =>
          /\ frame.failures = 3
          /\ frame.backoff = 2
          /\ frame.sleeps = frame.attempts - 1

\* The part of C11 that the code keeps: retry_count stays within 0..2, a
\* finished call never returned without a value (it returned the parsed body
\* or raised), and NotionAPIError comes after 3 failures and 2 one-second
\* sleeps, none after the last failure.
C11_LoopNeverFallsThrough ==
    /\ frame.retry_count \in 0..2
    /\ (Returned /\ ThroughClient /\ frame.req.kind = "return") =>
          frame.req.value.type \in {"dict", "list"}
    /\ (Returned /\ ThroughClient /\ frame.req.kind = "raise") =>
          frame.req.exc.type \in {"NotionAPIError", "ValueError", "JSONDecodeError"}
    /\ (Returned /\ ThroughClient /\ frame.req.kind = "raise"
           /\ frame.req.exc.type = "NotionAPIError") =>
          /\ frame.failures = 3
          /\ frame.backoff = 2
          /\ frame.sleeps = frame.attempts - 1

====
